---- MODULE Spec2Model ----
(***************************************************************************)
(* State-machine model of the survey application: the Builder components   *)
(* (SurveyBuilder over localStorage, FormBuilder over Firestore), the      *)
(* Renderer (SurveyPreview), the public survey view and the localStorage   *)
(* storage service.                                                        *)
(***************************************************************************)
EXTENDS Integers, Sequences, FiniteSets, TLC

VARIABLES
    route,              \* the mounted page: "home", "builder" or "view"
    component,          \* the mounted builder: "SurveyBuilder" or "FormBuilder"
    surveyProp,         \* id of the builder's `survey` prop, NoId when absent
    title,              \* useState title (sequence of characters)
    description,        \* useState description (sequence of characters)
    questions,          \* useState questions
    selectedQuestionId, \* useState selectedQuestionId, NoId for null
    saveStatus,         \* outcome of the last handleSave
    idCounter,          \* number of question ids drawn so far (nanoid)
    docCounter,         \* number of document ids drawn so far (nanoid / addDoc)
    localSurveys,       \* localStorage['surveyflow_surveys']
    localResponses,     \* localStorage['surveyflow_responses']
    fsSurveys,          \* Firestore collection 'surveys'
    fsResponses,        \* Firestore collection 'responses'
    viewState,          \* SurveyView: "none", "loading", "form", "unavailable"
    rSurvey,            \* the `survey` prop of SurveyPreview
    responses,          \* useState responses: question id -> answer
    currentPage,        \* useState currentPage
    pending,            \* response documents whose addDoc has not completed
    lastAlert,          \* the alert() shown by the last handleSubmit step
    surveyStartTime,    \* window.surveyStartTime, 0 while not set
    now,                \* the clock read by new Date() / Date.now(), in ms
    storageResult,      \* what the last call of the storage service returned
    analysis,           \* what QuestionAnalysis rendered last on the responses page
    calls,              \* per browser context: the saveResponse call it is running
    peer                \* the draft of a second Builder open on the same survey

builderVars == <<component, surveyProp, title, description, questions,
                 selectedQuestionId, saveStatus>>
storeVars == <<localSurveys, localResponses, fsSurveys, fsResponses>>
rendererVars == <<viewState, rSurvey, responses, currentPage, pending, lastAlert>>
timeVars == <<surveyStartTime, now, storageResult>>
contextVars == <<analysis, calls, peer>>
vars == <<route, builderVars, idCounter, docCounter, storeVars, rendererVars,
          timeVars, contextVars>>

----------------------------------------------------------------------------
(* Bounds of the model *)

MaxQuestions == 3
MaxIds == 2
MaxSurveys == 2
MaxResponses == 2
MaxPending == 2
MaxPageQuestions == 7
MaxTicks == 2
MaxDocs == 2

NoId == 0

----------------------------------------------------------------------------
(* Question model (shared schema) *)

questionTypes ==
    {"text", "textarea", "multiple-choice", "checkbox", "rating", "date", "email"}

\* JS object spread { ...q, ...u }: the fields of u override those of q.
Merge(q, u) ==
    [k \in (DOMAIN q) \cup (DOMAIN u) |-> IF k \in DOMAIN u THEN u[k] ELSE q[k]]

\* A Date value in memory, and what JSON.stringify makes of it (an ISO string)
DateOf(t) == [date |-> t]
IsoString(d) == [iso |-> d.date]

\* new Date(isoString)
ParsedDate(str) == [date |-> str.iso]

\* The Firestore Timestamp serverTimestamp() resolves to on a write
ServerTimestamp == [seconds |-> now \div 1000, millis |-> now % 1000]

\* How far apart the clock readings of the model are, in ms
TickMs == 700

\* Time passes
Tick ==
    /\ now < MaxTicks * TickMs
    /\ now' = now + TickMs
    /\ UNCHANGED <<route, builderVars, idCounter, docCounter, storeVars,
                   rendererVars, surveyStartTime, storageResult, contextVars>>

\* String.prototype.trim on a sequence of characters
IsSpace(c) == c = " "

RECURSIVE TrimLeft(_)
TrimLeft(s) ==
    IF s # <<>> /\ IsSpace(Head(s)) THEN TrimLeft(Tail(s)) ELSE s

RECURSIVE TrimRight(_)
TrimRight(s) ==
    IF s # <<>> /\ IsSpace(s[Len(s)]) THEN TrimRight(SubSeq(s, 1, Len(s) - 1))
    ELSE s

Trim(s) == TrimRight(TrimLeft(s))

\* An id generator that hands out the id it handed out last
ReusedId == IF idCounter = 0 THEN 1 ELSE idCounter

\* nanoid() in the builder's question operations: a fresh question id
FreshId == idCounter + 1

\* nanoid() / the id addDoc assigns to a new document: a fresh document id
FreshDocId == 200 + docCounter + 1

Ids(qs) == {qs[i].id : i \in 1..Len(qs)}

----------------------------------------------------------------------------
(* Builder: question operations *)

\* QUESTION_TYPES[...].label of SurveyBuilder
QuestionLabel(type) ==
    CASE type = "text" -> "Short Text"
      [] type = "textarea" -> "Long Text"
      [] type = "multiple-choice" -> "Multiple Choice"
      [] type = "checkbox" -> "Checkboxes"
      [] type = "rating" -> "Rating Scale"
      [] type = "email" -> "Email"
      [] type = "date" -> "Date"
      [] OTHER -> "Question"

\* The question SurveyBuilder.addQuestion builds; len = questions.length
SurveyBuilderNewQuestion(type, id, len) ==
    LET base == [id |-> id, type |-> type,
                 text |-> "New " \o QuestionLabel(type),
                 required |-> FALSE, order |-> len]
    IN IF type \in {"multiple-choice", "checkbox"}
       THEN Merge(base, [options |-> <<"Option 1", "Option 2">>])
       ELSE IF type = "rating"
       THEN Merge(base, [scale |-> [min |-> 1, max |-> 5]])
       ELSE base

\* The question FormBuilder.addQuestion builds; len = questions.length
FormBuilderNewQuestion(type, id, len) ==
    LET base == [id |-> id, type |-> type,
                 text |-> "New " \o type \o " question",
                 required |-> FALSE, order |-> len + 1]
    IN IF type \in {"multiple-choice", "checkbox"}
       THEN Merge(base, [options |-> <<"Option 1", "Option 2", "Option 3">>])
       ELSE IF type = "rating"
       THEN Merge(base, [scale |-> [min |-> 1, max |-> 5,
                                    minLabel |-> "Poor", maxLabel |-> "Excellent"]])
       ELSE base

NewQuestion(comp, type, id, len) ==
    IF comp = "SurveyBuilder" THEN SurveyBuilderNewQuestion(type, id, len)
    ELSE FormBuilderNewQuestion(type, id, len)

\* An update that merges the fields into every question
UpdatedEveryQuestion(qs, id, updates) ==
    [i \in 1..Len(qs) |-> Merge(qs[i], updates)]

\* prev.map(q => q.id === id ? { ...q, ...updates } : q)
UpdatedQuestions(qs, id, updates) ==
    [i \in 1..Len(qs) |-> IF qs[i].id = id THEN Merge(qs[i], updates) ELSE qs[i]]

\* A delete that also drops the questions after the one it removes
DeletedFrom(qs, id) ==
    IF \E i \in 1..Len(qs) : qs[i].id = id
    THEN SubSeq(qs, 1, (CHOOSE i \in 1..Len(qs) : qs[i].id = id) - 1)
    ELSE qs

\* prev.filter(q => q.id !== id)
RECURSIVE DeletedQuestions(_, _)
DeletedQuestions(qs, id) ==
    IF qs = <<>> THEN <<>>
    ELSE IF Head(qs).id # id
         THEN <<Head(qs)>> \o DeletedQuestions(Tail(qs), id)
         ELSE DeletedQuestions(Tail(qs), id)

\* The selection after deleteQuestion(id)
SelectionAfterDelete(comp, sel, id) ==
    IF comp = "SurveyBuilder" THEN (IF sel = id THEN NoId ELSE sel)
    ELSE NoId

\* questions.find(q => q.id === id): index of the first match, 0 when none
FindIndex(qs, id) ==
    IF \E i \in 1..Len(qs) : qs[i].id = id
    THEN CHOOSE i \in 1..Len(qs) :
            qs[i].id = id /\ \A j \in 1..(i - 1) : qs[j].id # id
    ELSE 0

\* A clone that keeps the original's text
DuplicateSameText(comp, q, id, len) ==
    Merge(q, [id |-> id, order |-> IF comp = "SurveyBuilder" THEN len ELSE len + 1])

\* The clone duplicateQuestion builds from question q; len = questions.length
Duplicate(comp, q, id, len) ==
    Merge(q, [id |-> id, text |-> q.text \o " (Copy)",
              order |-> IF comp = "SurveyBuilder" THEN len ELSE len + 1])

\* The updates the editor and the properties panel issue through onUpdate
QuestionUpdates ==
    {[text |-> "Q"], [required |-> TRUE], [required |-> FALSE]}

TitleInputs == {<<>>, <<" ">>, <<" ", "T">>, <<"T">>}
DescriptionInputs == {<<>>, <<"d", " ">>}

SetTitle(t) ==
    /\ route = "builder"
    /\ title' = t
    /\ UNCHANGED <<timeVars, contextVars, component, surveyProp, description, questions,
                   selectedQuestionId, saveStatus, idCounter, storeVars, route, rendererVars, docCounter>>

SetDescription(d) ==
    /\ route = "builder"
    /\ description' = d
    /\ UNCHANGED <<timeVars, contextVars, component, surveyProp, title, questions,
                   selectedQuestionId, saveStatus, idCounter, storeVars, route, rendererVars, docCounter>>

AddQuestion(type) ==
    /\ route = "builder"
    /\ Len(questions) < MaxQuestions
    /\ idCounter < MaxIds
    /\ LET newQuestion == NewQuestion(component, type, FreshId, Len(questions))
       IN /\ questions' = Append(questions, newQuestion)
          /\ selectedQuestionId' = newQuestion.id
    /\ idCounter' = idCounter + 1
    /\ UNCHANGED <<timeVars, contextVars, component, surveyProp, title, description, saveStatus,
                   storeVars, route, rendererVars, docCounter>>

UpdateQuestion(id, updates) ==
    /\ route = "builder"
    /\ questions' = UpdatedQuestions(questions, id, updates)
    /\ UNCHANGED <<timeVars, contextVars, component, surveyProp, title, description,
                   selectedQuestionId, saveStatus, idCounter, storeVars, route, rendererVars, docCounter>>

DeleteQuestion(id) ==
    /\ route = "builder"
    /\ questions' = DeletedQuestions(questions, id)
    /\ selectedQuestionId' = SelectionAfterDelete(component, selectedQuestionId, id)
    /\ UNCHANGED <<timeVars, contextVars, component, surveyProp, title, description, saveStatus,
                   idCounter, storeVars, route, rendererVars, docCounter>>

DuplicateQuestion(id) ==
    /\ route = "builder"
    /\ LET i == FindIndex(questions, id)
       IN IF i # 0
          THEN /\ Len(questions) < MaxQuestions
               /\ idCounter < MaxIds
               /\ questions' = Append(questions,
                      Duplicate(component, questions[i], FreshId, Len(questions)))
               /\ idCounter' = idCounter + 1
          ELSE UNCHANGED <<questions, idCounter>>
    /\ UNCHANGED <<timeVars, contextVars, component, surveyProp, title, description,
                   selectedQuestionId, saveStatus, storeVars, route, rendererVars, docCounter>>

\* onSelect={() => setSelectedQuestionId(question.id)}
SelectQuestion(id) ==
    /\ route = "builder"
    /\ id \in Ids(questions)
    /\ selectedQuestionId' = id
    /\ UNCHANGED <<timeVars, contextVars, component, surveyProp, title, description, questions,
                   saveStatus, idCounter, storeVars, route, rendererVars, docCounter>>

----------------------------------------------------------------------------
(* Builder: save *)

\* questions.map((q, index) => ({ ...q, order: index }))
Reindexed(qs) ==
    [i \in 1..Len(qs) |-> Merge(qs[i], [order |-> i - 1])]

\* The surveyData handleSave hands to saveSurveyMutation.mutate
SaveData(comp, t, d, qs) ==
    [title |-> Trim(t), description |-> Trim(d),
     questions |-> IF comp = "SurveyBuilder" THEN Reindexed(qs) ELSE qs]

\* A blank test that does not trim
TitleEmpty(t) == t = <<>>

\* !title.trim()
TitleBlank(t) == Trim(t) = <<>>

UntitledSurvey ==
    <<"U", "n", "t", "i", "t", "l", "e", "d", " ", "S", "u", "r", "v", "e", "y">>

CurrentUser == "u1"

\* newSurvey of SurveyBuilder's mutationFn
SurveyBuilderNewSurvey(data, id) ==
    [id |-> id,
     title |-> IF data.title = <<>> THEN UntitledSurvey ELSE data.title,
     description |-> data.description,
     questions |-> data.questions,
     createdBy |-> CurrentUser,
     createdAt |-> IsoString(DateOf(now)),
     updatedAt |-> IsoString(DateOf(now)),
     status |-> "draft",
     responseCount |-> 0]

\* newSurvey of FormBuilder's mutationFn, stored under the id addDoc assigns
FormBuilderNewSurvey(data, id) ==
    Merge(data, [id |-> id, createdBy |-> CurrentUser,
                 createdAt |-> ServerTimestamp, updatedAt |-> ServerTimestamp,
                 status |-> "draft", responseCount |-> 0])

\* An update that keeps a record some save has already overwritten
LocalUpdatedOnce(surveys, id, data) ==
    [i \in 1..Len(surveys) |->
        IF surveys[i].id = id /\ surveys[i].updatedAt = surveys[i].createdAt
        THEN Merge(surveys[i], data) ELSE surveys[i]]

\* An update that resets the counter of the record it overwrites
LocalUpdatedResetCount(surveys, id, data) ==
    [i \in 1..Len(surveys) |->
        IF surveys[i].id = id
        THEN Merge(surveys[i], Merge(data, [responseCount |-> 0]))
        ELSE surveys[i]]

\* localSurveys.map(s => s.id === survey.id ? { ...s, ...surveyData } : s)
LocalUpdated(surveys, id, data) ==
    [i \in 1..Len(surveys) |->
        IF surveys[i].id = id THEN Merge(surveys[i], data) ELSE surveys[i]]

\* updateDoc(doc(db, 'surveys', id), fields): merges the fields into the document
FsUpdated(docs, id, fields) ==
    {IF s.id = id THEN Merge(s, fields) ELSE s : s \in docs}

FsIds == {s.id : s \in fsSurveys}
LocalIds == {localSurveys[i].id : i \in 1..Len(localSurveys)}

\* handleSave with a blank title: toast and return
SaveInvalid ==
    /\ route = "builder"
    /\ TitleBlank(title)
    /\ saveStatus' = "invalid"
    /\ UNCHANGED <<timeVars, contextVars, component, surveyProp, title, description, questions,
                   selectedQuestionId, idCounter, storeVars, route, rendererVars, docCounter>>

\* handleSave of SurveyBuilder, mutationFn completing
SaveLocal ==
    /\ route = "builder"
    /\ component = "SurveyBuilder"
    /\ ~TitleBlank(title)
    /\ LET data == SaveData(component, title, description, questions)
       IN IF surveyProp # NoId
          THEN /\ localSurveys' = LocalUpdated(localSurveys, surveyProp,
                      Merge(data, [updatedAt |-> IsoString(DateOf(now))]))
               /\ UNCHANGED docCounter
          ELSE /\ Len(localSurveys) < MaxSurveys
               /\ localSurveys' =
                     Append(localSurveys, SurveyBuilderNewSurvey(data, FreshDocId))
               /\ docCounter' = docCounter + 1
    /\ saveStatus' = "success"
    /\ UNCHANGED <<timeVars, contextVars, component, surveyProp, title, description, questions,
                   selectedQuestionId, idCounter, route, rendererVars,
                   localResponses, fsSurveys, fsResponses>>

\* handleSave of FormBuilder, mutationFn completing
SaveFirestore ==
    /\ route = "builder"
    /\ component = "FormBuilder"
    /\ ~TitleBlank(title)
    /\ LET data == SaveData(component, title, description, questions)
       IN IF surveyProp # NoId
          THEN /\ surveyProp \in FsIds
               /\ fsSurveys' = FsUpdated(fsSurveys, surveyProp,
                      Merge(data, [updatedAt |-> ServerTimestamp]))
               /\ UNCHANGED docCounter
          ELSE /\ Cardinality(fsSurveys) < MaxSurveys
               /\ fsSurveys' = fsSurveys \cup {FormBuilderNewSurvey(data, FreshDocId)}
               /\ docCounter' = docCounter + 1
    /\ saveStatus' = "success"
    /\ UNCHANGED <<timeVars, contextVars, component, surveyProp, title, description, questions,
                   selectedQuestionId, idCounter, route, rendererVars,
                   localSurveys, localResponses, fsResponses>>

\* handleSave whose mutationFn throws (no user, storage or backend failure)
SaveFails ==
    /\ route = "builder"
    /\ ~TitleBlank(title)
    /\ saveStatus' = "error"
    /\ UNCHANGED <<timeVars, contextVars, component, surveyProp, title, description, questions,
                   selectedQuestionId, idCounter, storeVars, route, rendererVars, docCounter>>

HandleSave == SaveInvalid \/ SaveLocal \/ SaveFirestore \/ SaveFails

----------------------------------------------------------------------------
(* Storage service over localStorage *)

\* surveys.findIndex(s => s.id === surveyId), 0 when none
SurveyIndex(surveys, id) ==
    IF \E i \in 1..Len(surveys) : surveys[i].id = id
    THEN CHOOSE i \in 1..Len(surveys) :
            surveys[i].id = id /\ \A j \in 1..(i - 1) : surveys[j].id # id
    ELSE 0

\* An update that leaves updatedAt as it was
StorageUpdatedStale(surveys, id, updates) ==
    LET index == SurveyIndex(surveys, id)
    IN [surveys EXCEPT ![index] = Merge(surveys[index], updates)]

\* updateSurvey: the stored array after merging updates into the survey found
StorageUpdated(surveys, id, updates) ==
    LET index == SurveyIndex(surveys, id)
    IN [surveys EXCEPT ![index] =
            Merge(Merge(surveys[index], updates),
                  [updatedAt |-> IsoString(DateOf(now))])]

\* incrementResponseCount: the stored array after the call
CountIncremented(surveys, id) ==
    LET index == SurveyIndex(surveys, id)
    IN IF index # 0
       THEN StorageUpdated(surveys, id,
                [responseCount |-> surveys[index].responseCount + 1])
       ELSE surveys

\* saveResponse(response)
StorageSaveResponse(surveyId, answers) ==
    /\ Len(localResponses) < MaxResponses
    /\ localResponses' = Append(localResponses,
            [id |-> FreshDocId, surveyId |-> surveyId, responses |-> answers,
             isComplete |-> TRUE, submittedAt |-> IsoString(DateOf(now))])
    /\ docCounter' = docCounter + 1
    /\ localSurveys' = CountIncremented(localSurveys, surveyId)
    /\ storageResult' = [op |-> "saveResponse", ok |-> TRUE, id |-> FreshDocId]
    /\ UNCHANGED <<surveyStartTime, now, contextVars, route, builderVars, idCounter, fsSurveys,
                   fsResponses, rendererVars>>

----------------------------------------------------------------------------
(* Answers *)

StrAnswer(v) == [kind |-> "str", v |-> v]
ArrAnswer(v) == [kind |-> "arr", v |-> v]
NumAnswer(v) == [kind |-> "num", v |-> v]

NoAnswers == <<>>

\* JavaScript's !value for an answer that is present
Falsy(a) ==
    \/ a.kind = "str" /\ a.v = ""
    \/ a.kind = "num" /\ a.v = 0

\* !responses[q.id] || (Array.isArray(responses[q.id]) && responses[q.id].length === 0)
IsMissing(answers, qid) ==
    \/ qid \notin DOMAIN answers
    \/ Falsy(answers[qid])
    \/ answers[qid].kind = "arr" /\ Len(answers[qid].v) = 0

RECURSIVE MissingRequired(_, _)
\* survey.questions.filter(q => q.required).filter(q => missing)
MissingRequired(qs, answers) ==
    IF qs = <<>> THEN <<>>
    ELSE IF Head(qs).required /\ IsMissing(answers, Head(qs).id)
         THEN <<Head(qs)>> \o MissingRequired(Tail(qs), answers)
         ELSE MissingRequired(Tail(qs), answers)

\* setResponses(prev => ({ ...prev, [questionId]: value }))
WithAnswer(answers, qid, value) ==
    [k \in (DOMAIN answers) \cup {qid} |-> IF k = qid THEN value ELSE answers[k]]

----------------------------------------------------------------------------
(* Renderer (SurveyPreview) *)

questionsPerPage == 3

\* Math.ceil(survey.questions.length / questionsPerPage)
TotalPages(qs) == (Len(qs) + questionsPerPage - 1) \div questionsPerPage

\* A slice that starts one question early
PageIndicesShifted(qs, page) ==
    {i \in 1..Len(qs) :
        page * questionsPerPage <= i /\ i < (page + 1) * questionsPerPage}

\* Indices (1-based) of survey.questions.slice(page * 3, (page + 1) * 3)
PageIndices(qs, page) ==
    {i \in 1..Len(qs) :
        page * questionsPerPage < i /\ i <= (page + 1) * questionsPerPage}

NoSurvey == [id |-> NoId, title |-> <<>>, questions |-> <<>>]
NoAlert == [kind |-> "none"]

\* The state of an unmounted SurveyPreview / SurveyView
RendererReset ==
    /\ viewState' = "none"
    /\ rSurvey' = NoSurvey
    /\ responses' = NoAnswers
    /\ currentPage' = 0
    /\ surveyStartTime' = 0

FormShown == route = "view" /\ viewState = "form"

\* question.scale || { min: 1, max: 5 }
ScaleOf(q) == IF "scale" \in DOMAIN q THEN q.scale ELSE [min |-> 1, max |-> 5]

OptionsOf(q) == IF "options" \in DOMAIN q THEN q.options ELSE <<>>

InSeq(x, seq) == \E i \in 1..Len(seq) : seq[i] = x

RECURSIVE Without(_, _)
\* currentValues.filter(v => v !== option)
Without(seq, x) ==
    IF seq = <<>> THEN <<>>
    ELSE IF Head(seq) # x THEN <<Head(seq)>> \o Without(Tail(seq), x)
         ELSE Without(Tail(seq), x)

\* The checkbox onChange: the new array value
Toggled(answers, qid, option) ==
    LET currentValues ==
            IF qid \in DOMAIN answers /\ answers[qid].kind = "arr"
            THEN answers[qid].v ELSE <<>>
    IN IF InSeq(option, currentValues)
       THEN Without(currentValues, option)
       ELSE Append(currentValues, option)

TextInputs == {"", "a"}

\* handleResponseChange for the control of the question at index i of the page
HandleResponseChange(i) ==
    /\ FormShown
    /\ i \in PageIndices(rSurvey.questions, currentPage)
    /\ LET q == rSurvey.questions[i]
       IN \/ /\ q.type \in {"text", "email", "textarea", "date"}
             /\ \E v \in TextInputs :
                    responses' = WithAnswer(responses, q.id, StrAnswer(v))
          \/ /\ q.type = "multiple-choice"
             /\ \E k \in 1..Len(OptionsOf(q)) :
                    responses' = WithAnswer(responses, q.id, StrAnswer(OptionsOf(q)[k]))
          \/ /\ q.type = "checkbox"
             /\ \E k \in 1..Len(OptionsOf(q)) :
                    responses' = WithAnswer(responses, q.id,
                                    ArrAnswer(Toggled(responses, q.id, OptionsOf(q)[k])))
          \/ /\ q.type = "rating"
             /\ \E num \in ScaleOf(q).min .. ScaleOf(q).max :
                    responses' = WithAnswer(responses, q.id, NumAnswer(num))
    /\ lastAlert' = NoAlert
    /\ UNCHANGED <<timeVars, contextVars, route, builderVars, idCounter, docCounter, storeVars,
                   viewState, rSurvey, currentPage, pending>>

\* A next action with no check of the last page
NextPageUnbounded ==
    /\ FormShown
    /\ currentPage' = currentPage + 1
    /\ lastAlert' = NoAlert
    /\ UNCHANGED <<timeVars, contextVars, route, builderVars, idCounter, docCounter, storeVars,
                   viewState, rSurvey, responses, pending>>

NextPage ==
    /\ FormShown
    /\ IF currentPage < TotalPages(rSurvey.questions) - 1
       THEN currentPage' = currentPage + 1
       ELSE UNCHANGED currentPage
    /\ lastAlert' = NoAlert
    /\ UNCHANGED <<timeVars, contextVars, route, builderVars, idCounter, docCounter, storeVars,
                   viewState, rSurvey, responses, pending>>

PrevPage ==
    /\ FormShown
    /\ IF currentPage > 0
       THEN currentPage' = currentPage - 1
       ELSE UNCHANGED currentPage
    /\ lastAlert' = NoAlert
    /\ UNCHANGED <<timeVars, contextVars, route, builderVars, idCounter, docCounter, storeVars,
                   viewState, rSurvey, responses, pending>>

\* The Submit button replaces Next on the last page
SubmitOffered == FormShown /\ ~(currentPage < TotalPages(rSurvey.questions) - 1)

\* q => q.text over the missing questions
Texts(qs) == [i \in 1..Len(qs) |-> qs[i].text]

\* Date.now() - window.surveyStartTime || 0
CompletionTime ==
    IF surveyStartTime = 0 THEN 0 ELSE now - surveyStartTime

\* responseData of handleSubmit
ResponseData(survey, answers) ==
    [surveyId |-> survey.id, responses |-> answers, isComplete |-> TRUE,
     completionTime |-> CompletionTime]

\* handleSubmit stopped by the required-fields validation
SubmitBlocked ==
    /\ SubmitOffered
    /\ MissingRequired(rSurvey.questions, responses) # <<>>
    /\ lastAlert' = [kind |-> "missing",
                     texts |-> Texts(MissingRequired(rSurvey.questions, responses))]
    /\ UNCHANGED <<timeVars, contextVars, route, builderVars, idCounter, docCounter, storeVars,
                   viewState, rSurvey, responses, currentPage, pending>>

\* handleSubmit past the validation, awaiting addDoc
SubmitStart ==
    /\ SubmitOffered
    /\ MissingRequired(rSurvey.questions, responses) = <<>>
    /\ Len(pending) < MaxPending
    /\ pending' = Append(pending, ResponseData(rSurvey, responses))
    /\ lastAlert' = NoAlert
    /\ UNCHANGED <<timeVars, contextVars, route, builderVars, idCounter, docCounter, storeVars,
                   viewState, rSurvey, responses, currentPage>>

\* handleSubmit of a respondent who waits for the outcome of a submit before
\* clicking Submit again
SubmitOnce == pending = <<>> /\ SubmitStart

\* addDoc resolves: the success alert, then the redirect to '/'
SubmitSucceeds ==
    /\ route = "view"
    /\ pending # <<>>
    /\ Cardinality(fsResponses) < MaxResponses
    /\ fsResponses' = fsResponses \cup
            {Merge(Head(pending), [id |-> FreshDocId, submittedAt |-> ServerTimestamp])}
    /\ docCounter' = docCounter + 1
    /\ lastAlert' = [kind |-> "success"]
    /\ route' = "home"
    /\ RendererReset
    /\ pending' = Tail(pending)
    /\ UNCHANGED <<now, storageResult, contextVars, builderVars, idCounter, localSurveys,
                   localResponses, fsSurveys>>

\* An addDoc issued before the page was left reaches the backend after it
SubmitLands ==
    /\ route = "home"
    /\ pending # <<>>
    /\ Cardinality(fsResponses) < MaxResponses
    /\ fsResponses' = fsResponses \cup
            {Merge(Head(pending), [id |-> FreshDocId, submittedAt |-> ServerTimestamp])}
    /\ docCounter' = docCounter + 1
    /\ pending' = Tail(pending)
    /\ UNCHANGED <<timeVars, contextVars, route, builderVars, idCounter, localSurveys,
                   localResponses, fsSurveys, viewState, rSurvey, responses,
                   currentPage, lastAlert>>

\* An addDoc issued before the page was left is cut off by the navigation
SubmitDropped ==
    /\ route = "home"
    /\ pending # <<>>
    /\ pending' = Tail(pending)
    /\ UNCHANGED <<timeVars, contextVars, route, builderVars, idCounter, docCounter, storeVars,
                   viewState, rSurvey, responses, currentPage, lastAlert>>

\* A failure handler that clears the form
SubmitFailsDiscarding ==
    /\ route = "view"
    /\ pending # <<>>
    /\ pending' = Tail(pending)
    /\ lastAlert' = [kind |-> "error"]
    /\ responses' = NoAnswers
    /\ currentPage' = 0
    /\ UNCHANGED <<timeVars, contextVars, route, builderVars, idCounter, docCounter, storeVars,
                   viewState, rSurvey>>

\* addDoc rejects: the error alert; nothing else changes
SubmitFails ==
    /\ route = "view"
    /\ pending # <<>>
    /\ pending' = Tail(pending)
    /\ lastAlert' = [kind |-> "error"]
    /\ UNCHANGED <<timeVars, contextVars, route, builderVars, idCounter, docCounter, storeVars,
                   viewState, rSurvey, responses, currentPage>>

----------------------------------------------------------------------------
(* Public survey view (SurveyView) and the survey list *)

\* Navigating to /survey/:id
OpenView(id) ==
    /\ route = "home"
    /\ route' = "view"
    /\ viewState' = "loading"
    /\ rSurvey' = [NoSurvey EXCEPT !.id = id]
    /\ lastAlert' = NoAlert
    /\ UNCHANGED <<timeVars, contextVars, builderVars, idCounter, docCounter, storeVars, responses,
                   currentPage, pending>>

\* A query that serves every document that exists
ViewOutcomeAnyStatus(docs, id) ==
    IF \E s \in docs : s.id = id THEN "form" ELSE "unavailable"

\* The outcome of queryFn on the documents: "form" or "unavailable"
ViewOutcome(docs, id) ==
    IF ~\E s \in docs : s.id = id THEN "unavailable"
    ELSE IF (CHOOSE s \in docs : s.id = id).status # "active" THEN "unavailable"
    ELSE "form"

\* queryFn completes (getDoc resolved)
LoadView ==
    /\ route = "view"
    /\ viewState = "loading"
    /\ viewState' = ViewOutcome(fsSurveys, rSurvey.id)
    /\ rSurvey' = IF viewState' = "form"
                  THEN CHOOSE s \in fsSurveys : s.id = rSurvey.id
                  ELSE rSurvey
    /\ surveyStartTime' = IF viewState' = "form" THEN now ELSE surveyStartTime
    /\ UNCHANGED <<now, storageResult, contextVars, route, builderVars, idCounter, docCounter, storeVars,
                   responses, currentPage, pending, lastAlert>>

\* queryFn throws because getDoc rejected
LoadFails ==
    /\ route = "view"
    /\ viewState = "loading"
    /\ viewState' = "unavailable"
    /\ UNCHANGED <<timeVars, contextVars, route, builderVars, idCounter, docCounter, storeVars,
                   rSurvey, responses, currentPage, pending, lastAlert>>

\* Leaving the page discards the view and the capture state
LeaveView ==
    /\ route = "view"
    /\ pending = <<>>
    /\ route' = "home"
    /\ RendererReset
    /\ lastAlert' = NoAlert
    /\ UNCHANGED <<now, storageResult, contextVars, builderVars, idCounter, docCounter, storeVars, pending>>

\* handleToggleStatus of the survey list, from the owner's browser
ToggleStatus(id) ==
    /\ \E s \in fsSurveys :
          /\ s.id = id
          /\ fsSurveys' = FsUpdated(fsSurveys, id,
                [status |-> IF s.status = "active" THEN "draft" ELSE "active"])
    /\ UNCHANGED <<timeVars, contextVars, route, builderVars, idCounter, docCounter, localSurveys,
                   localResponses, fsResponses, rendererVars>>

----------------------------------------------------------------------------
(* Initial states *)

\* No call of the storage service was made yet
NoResult == [op |-> "none", ok |-> TRUE]

\* The Firestore Timestamp of the documents written before the session
StoredEarlier == [seconds |-> 0, millis |-> 0]

\* The clock when the session starts; nothing was returned or mounted yet
InitTime ==
    /\ now = 1
    /\ surveyStartTime = 0
    /\ storageResult = NoResult

\* The responses page has rendered nothing
NoAnalysis == [questionId |-> NoId]

\* The browser contexts that share the localStorage of the origin
Contexts == {"tab1", "tab2"}

\* A context that is running no call of the storage service
Idle == [pc |-> "idle"]

\* No second Builder is open
NoPeer == [open |-> FALSE]

\* One browser context, one Builder at most, nothing analysed yet
InitContext ==
    /\ analysis = NoAnalysis
    /\ calls = [c \in Contexts |-> Idle]
    /\ peer = NoPeer

\* A survey in localStorage saved by an earlier SurveyBuilder session, with the
\* one response saved for it through the storage service
LocalExisting ==
    [id |-> 101, title |-> <<"E">>, description |-> <<>>,
     questions |-> <<[id |-> 100, type |-> "text", text |-> "Name?",
                      required |-> TRUE, order |-> 0]>>,
     createdBy |-> CurrentUser, createdAt |-> IsoString(DateOf(0)),
     updatedAt |-> IsoString(DateOf(0)), status |-> "draft", responseCount |-> 1]

LocalExistingResponse ==
    [id |-> 111, surveyId |-> LocalExisting.id,
     responses |-> WithAnswer(NoAnswers, 100, StrAnswer("a")), isComplete |-> TRUE,
     submittedAt |-> IsoString(DateOf(0))]

\* A Firestore survey saved by an earlier FormBuilder session
FsExisting ==
    [id |-> 102, title |-> <<"E">>, description |-> <<>>,
     questions |-> <<[id |-> 100, type |-> "text", text |-> "Name?",
                      required |-> TRUE, order |-> 1]>>,
     createdBy |-> CurrentUser, createdAt |-> StoredEarlier,
     updatedAt |-> StoredEarlier, status |-> "draft", responseCount |-> 0]

\* A published Firestore survey: a rating whose scale was edited to -1..1, a
\* checkbox, a text and a multiple-choice question, on two pages
FsPublished ==
    [id |-> 103, title |-> <<"P">>, description |-> <<>>,
     questions |->
        <<[id |-> 301, type |-> "rating", text |-> "Rate", required |-> TRUE,
           order |-> 1, scale |-> [min |-> -1, max |-> 1]],
          [id |-> 302, type |-> "checkbox", text |-> "Pick", required |-> TRUE,
           order |-> 2, options |-> <<"A">>],
          [id |-> 303, type |-> "text", text |-> "Name", required |-> TRUE,
           order |-> 3],
          [id |-> 304, type |-> "multiple-choice", text |-> "Plan",
           required |-> FALSE, order |-> 4, options |-> <<"X">>]>>,
     createdBy |-> CurrentUser, createdAt |-> StoredEarlier,
     updatedAt |-> StoredEarlier, status |-> "active", responseCount |-> 0]

\* A Firestore survey in one of the statuses that are not served
FsUnserved(status) ==
    [FsExisting EXCEPT !.id = 104, !.status = status]

MissingSurveyId == 109

\* The stores of an owner's session: the surveys saved earlier by each builder
InitOwnerStores ==
    /\ localSurveys = <<LocalExisting>>
    /\ localResponses = <<LocalExistingResponse>>
    /\ fsSurveys = {FsExisting}
    /\ fsResponses = {}
    /\ idCounter = 0
    /\ docCounter = 0

\* The stores a respondent's session runs against
InitPublicStores ==
    /\ localSurveys = <<LocalExisting>>
    /\ localResponses = <<LocalExistingResponse>>
    /\ fsSurveys = {FsPublished, FsUnserved("archived")}
    /\ fsResponses = {}
    /\ idCounter = 0
    /\ docCounter = 0

InitRenderer ==
    /\ viewState = "none"
    /\ rSurvey = NoSurvey
    /\ responses = NoAnswers
    /\ currentPage = 0
    /\ pending = <<>>
    /\ lastAlert = NoAlert

\* The survey the builder was opened on
PropSurvey(comp, id) ==
    IF id = NoId THEN [NoSurvey EXCEPT !.title = <<>>] @@ [description |-> <<>>]
    ELSE IF comp = "SurveyBuilder" THEN LocalExisting ELSE FsExisting

\* A builder mounted on no survey or on the stored one: useState(survey?.x || ...)
InitBuilder ==
    /\ route = "builder"
    /\ component \in {"SurveyBuilder", "FormBuilder"}
    /\ surveyProp \in {NoId, IF component = "SurveyBuilder"
                             THEN LocalExisting.id ELSE FsExisting.id}
    /\ title = PropSurvey(component, surveyProp).title
    /\ description = PropSurvey(component, surveyProp).description
    /\ questions = PropSurvey(component, surveyProp).questions
    /\ selectedQuestionId = NoId
    /\ saveStatus = "idle"

\* No builder mounted
InitNoBuilder ==
    /\ route = "home"
    /\ component = "none"
    /\ surveyProp = NoId
    /\ title = <<>>
    /\ description = <<>>
    /\ questions = <<>>
    /\ selectedQuestionId = NoId
    /\ saveStatus = "idle"

AllIds == (1..MaxIds) \cup {100}

----------------------------------------------------------------------------
(* The Builder's question operations *)

InitDraft ==
    InitBuilder /\ InitOwnerStores /\ InitRenderer /\ InitTime /\ InitContext

NextDraft ==
    \/ \E type \in questionTypes : AddQuestion(type)
    \/ \E id \in AllIds, u \in QuestionUpdates : UpdateQuestion(id, u)
    \/ \E id \in AllIds : DeleteQuestion(id)
    \/ \E id \in AllIds : DuplicateQuestion(id)
    \/ \E id \in AllIds : SelectQuestion(id)

SpecDraft == InitDraft /\ [][NextDraft]_vars

----------------------------------------------------------------------------
(* The Builder with save *)

SavePalette == {"text", "checkbox"}

NextSave ==
    \/ \E t \in TitleInputs : SetTitle(t)
    \/ \E d \in DescriptionInputs : SetDescription(d)
    \/ \E type \in SavePalette : AddQuestion(type)
    \/ \E id \in AllIds : DeleteQuestion(id)
    \/ \E id \in AllIds : DuplicateQuestion(id)
    \/ HandleSave

SpecSave == InitDraft /\ [][NextSave]_vars

----------------------------------------------------------------------------
(* The public view and the Renderer, the survey list and the storage service *)

InitRespondent ==
    InitNoBuilder /\ InitPublicStores /\ InitRenderer /\ InitTime /\ InitContext

ViewIds == {FsPublished.id, FsUnserved("archived").id, MissingSurveyId}

NextView ==
    \/ \E id \in ViewIds : OpenView(id)
    \/ LoadView
    \/ LoadFails
    \/ LeaveView
    \/ \E i \in 1..4 : HandleResponseChange(i)
    \/ NextPage
    \/ PrevPage
    \/ SubmitBlocked
    \/ SubmitOnce
    \/ SubmitSucceeds
    \/ SubmitFails

NextRenderer ==
    \/ NextView
    \/ \E id \in ViewIds : ToggleStatus(id)
    \/ \E id \in {LocalExisting.id, MissingSurveyId} :
          StorageSaveResponse(id, WithAnswer(NoAnswers, 100, StrAnswer("a")))

SpecRenderer == InitRespondent /\ [][NextRenderer]_vars

----------------------------------------------------------------------------
(* A builder session or a respondent session, with failing persistence calls *)

InitRetry == InitDraft \/ InitRespondent

NextRetry ==
    \/ \E t \in TitleInputs : SetTitle(t)
    \/ \E d \in DescriptionInputs : SetDescription(d)
    \/ HandleSave
    \/ NextView

SpecRetry == InitRetry /\ [][NextRetry]_vars

----------------------------------------------------------------------------
(* Properties of the question operations *)

PairwiseDistinctIds(qs) ==
    \A i, j \in 1..Len(qs) : i # j => qs[i].id # qs[j].id

SameIds(qs, rs) ==
    Len(qs) = Len(rs) /\ \A i \in 1..Len(qs) : qs[i].id = rs[i].id

\* C4: after any sequence of addQuestion, updateQuestion, deleteQuestion and
\* duplicateQuestion the ids of the draft's questions are pairwise distinct, and
\* updateQuestion leaves the id of every question of the list as it was.
C4_IdsDistinctAndStable ==
    /\ [](PairwiseDistinctIds(questions))
    /\ [][\A id \in AllIds, u \in QuestionUpdates :
            UpdateQuestion(id, u) => SameIds(questions, questions')]_vars

\* C4 witness: a draft of three questions, one of them edited by updateQuestion
C4_Witness ==
    /\ Len(questions) = 3
    /\ \E i \in 1..3 : questions[i].text = "Q" /\ questions[i].required

HasOptions(q) == "options" \in DOMAIN q
HasScale(q) == "scale" \in DOMAIN q

\* C9: addQuestion(type) appends one question with a fresh id, required = false
\* and order = the length before the call, leaves the earlier questions unchanged
\* and selects the new question; choice types get exactly two default options,
\* rating gets scale {min: 1, max: 5}, every other type gets neither.
C9_AddQuestionContract ==
    [][\A type \in questionTypes :
        AddQuestion(type) =>
            LET n == Len(questions)
                new == questions'[n + 1]
            IN /\ Len(questions') = n + 1
               /\ \A i \in 1..n : questions'[i] = questions[i]
               /\ new.id \notin Ids(questions)
               /\ new.type = type
               /\ new.required = FALSE
               /\ new.order = n
               /\ selectedQuestionId' = new.id
               /\ IF type \in {"multiple-choice", "checkbox"}
                  THEN HasOptions(new) /\ Len(new.options) = 2 /\ ~HasScale(new)
                  ELSE IF type = "rating"
                  THEN HasScale(new) /\ new.scale = [min |-> 1, max |-> 5]
                       /\ ~HasOptions(new)
                  ELSE ~HasOptions(new) /\ ~HasScale(new)]_vars

SameOptional(q, r, field) ==
    IF field \in DOMAIN q THEN field \in DOMAIN r /\ r[field] = q[field]
    ELSE field \notin DOMAIN r

\* C10: duplicateQuestion(id) for an id of the list appends one question at the
\* end whose id differs from every existing id, whose type, options and scale are
\* the original's and whose text is the original's followed by " (Copy)", and
\* leaves the other questions unchanged; for an id not in the list the draft is
\* unchanged.
C10_DuplicateQuestionContract ==
    [][\A id \in AllIds :
        DuplicateQuestion(id) =>
            IF id \in Ids(questions)
            THEN LET n == Len(questions)
                     orig == CHOOSE q \in {questions[i] : i \in 1..n} : q.id = id
                     copy == questions'[n + 1]
                 IN /\ Len(questions') = n + 1
                    /\ \A i \in 1..n : questions'[i] = questions[i]
                    /\ copy.id \notin Ids(questions)
                    /\ copy.type = orig.type
                    /\ SameOptional(orig, copy, "options")
                    /\ SameOptional(orig, copy, "scale")
                    /\ copy.text = orig.text \o " (Copy)"
            ELSE UNCHANGED <<title, description, questions, selectedQuestionId>>
    ]_vars

\* C10 witness: the copy of the first question sits at the end of a list of
\* three, with another question between the two
C10_Witness ==
    /\ Len(questions) = 3
    /\ questions[3].text = questions[1].text \o " (Copy)"
    /\ questions[3].type = questions[1].type
    /\ questions[3].id # questions[1].id
    /\ questions[2].text # questions[1].text

----------------------------------------------------------------------------
(* Properties of save *)

\* The surveys the mounted builder's backend holds
StoredSurveys ==
    IF component = "SurveyBuilder"
    THEN {localSurveys[i] : i \in 1..Len(localSurveys)}
    ELSE fsSurveys

StoredIds == {s.id : s \in StoredSurveys}

\* The other backend
OtherStore == IF component = "SurveyBuilder" THEN fsSurveys ELSE localSurveys

\* A handleSave step whose persistence call completed
SaveSucceeds == SaveLocal \/ SaveFirestore

\* The record a successful save step wrote
SavedRecord ==
    CHOOSE s \in StoredSurveys' :
        IF surveyProp # NoId THEN s.id = surveyProp ELSE s.id \notin StoredIds

OrderIsIndex(qs) == \A i \in 1..Len(qs) : qs[i].order = i - 1

\* C3: the Survey record persisted by a successful save has every question's
\* order equal to its zero-based index in the questions list.
C3_SavedOrderIsIndex ==
    [][SaveSucceeds => OrderIsIndex(SavedRecord.questions)]_vars

EqualUpToOrder(qs, rs) ==
    /\ Len(qs) = Len(rs)
    /\ \A i \in 1..Len(qs) : [qs[i] EXCEPT !.order = 0] = [rs[i] EXCEPT !.order = 0]

OnlyWhitespace(t) == \A i \in 1..Len(t) : t[i] = " "

\* C6: handleSave with an empty or whitespace-only title ends in the validation
\* error: the stored surveys and responses are unchanged and so are the draft's
\* title, description, questions and selection.
C6_BlankTitleRejected ==
    [][(HandleSave /\ OnlyWhitespace(title)) =>
        /\ saveStatus' = "invalid"
        /\ UNCHANGED <<storeVars, docCounter>>
        /\ UNCHANGED <<title, description, questions, selectedQuestionId>>
    ]_vars

\* C6 witness: a save of a draft with questions and a whitespace title was refused
C6_Witness ==
    /\ saveStatus = "invalid"
    /\ title = <<" ">>
    /\ Len(questions) = 2

----------------------------------------------------------------------------
(* Properties of the Renderer, the public view and the response counter *)

\* An answer that is absent, the empty string or the empty array
EmptyAnswer(answers, qid) ==
    \/ qid \notin DOMAIN answers
    \/ answers[qid].kind = "str" /\ answers[qid].v = ""
    \/ answers[qid].kind = "arr" /\ answers[qid].v = <<>>

RECURSIVE RequiredEmpty(_, _)
\* The texts of the required questions with an empty answer, in list order
RequiredEmpty(qs, answers) ==
    IF qs = <<>> THEN <<>>
    ELSE (IF Head(qs).required /\ EmptyAnswer(answers, Head(qs).id)
          THEN <<Head(qs).text>> ELSE <<>>) \o RequiredEmpty(Tail(qs), answers)

\* A click on Submit: handleSubmit up to the validation's verdict
SubmitClicked == SubmitBlocked \/ SubmitStart

\* C1: a submit is blocked exactly when some required question has an absent,
\* empty-string or empty-array answer, and then reports all and only those
\* questions; with every required question answered (a rating by any number of
\* its scale) the submit hands over a Response with isComplete = true whose
\* responses map is the captured answers.
C1_SubmitBlockedIffRequiredEmpty ==
    [][SubmitClicked =>
        IF RequiredEmpty(rSurvey.questions, responses) # <<>>
        THEN /\ lastAlert' = [kind |-> "missing",
                              texts |-> RequiredEmpty(rSurvey.questions, responses)]
             /\ UNCHANGED <<pending, fsResponses>>
        ELSE /\ Len(pending') = Len(pending) + 1
             /\ pending'[Len(pending')].surveyId = rSurvey.id
             /\ pending'[Len(pending')].responses = responses
             /\ pending'[Len(pending')].isComplete = TRUE
    ]_vars

ResponsesOfLocal(id) ==
    {i \in 1..Len(localResponses) : localResponses[i].surveyId = id}

ResponsesOfFs(id) == {r \in fsResponses : r.surveyId = id}

\* C2: in every reachable state every persisted survey's responseCount is the
\* number of persisted responses whose surveyId is the survey's id.
C2_ResponseCountMatches ==
    /\ \A i \in 1..Len(localSurveys) :
          localSurveys[i].responseCount
              = Cardinality(ResponsesOfLocal(localSurveys[i].id))
    /\ \A s \in fsSurveys : s.responseCount = Cardinality(ResponsesOfFs(s.id))

\* A survey with this id exists and is active
Servable(id) == \E s \in fsSurveys : s.id = id /\ s.status = "active"

\* C7: the public view shows the form for a survey id only if, when the load
\* completes, a survey with that id exists and is active; otherwise the load
\* ends in the unavailable view, which never turns into the form.
C7_OnlyActiveServed ==
    [][/\ (viewState' = "form" =>
              \/ viewState = "form" /\ rSurvey' = rSurvey
              \/ viewState = "loading" /\ Servable(rSurvey.id)
                 /\ rSurvey'.id = rSurvey.id /\ rSurvey' \in fsSurveys)
       /\ (viewState = "loading" /\ ~Servable(rSurvey.id) /\ route' = "view"
              => viewState' \in {"loading", "unavailable"})
       /\ (viewState = "unavailable" => viewState' \in {"unavailable", "none"})
    ]_vars

\* C7 witness: the view of a survey that exists with status draft ended
\* unavailable
C7_Witness ==
    /\ route = "view"
    /\ viewState = "unavailable"
    /\ \E s \in fsSurveys : s.id = rSurvey.id /\ s.status = "draft"

\* C8: a failed Builder save leaves the draft's title, description and questions
\* as they were, and a failed Renderer submit leaves the captured answers and the
\* current page as they were.
C8_FailureKeepsState ==
    [][/\ (HandleSave /\ saveStatus' = "error" =>
              UNCHANGED <<title, description, questions>>)
       /\ (lastAlert' = [kind |-> "error"] /\ lastAlert' # lastAlert =>
              UNCHANGED <<responses, currentPage, route, viewState, rSurvey>>)
    ]_vars

\* C8 witness: a submit from the second page failed and the answers are still
\* on the form
C8_Witness ==
    /\ lastAlert = [kind |-> "error"]
    /\ currentPage = 1
    /\ MissingRequired(rSurvey.questions, responses) = <<>>
    /\ 304 \in DOMAIN responses

----------------------------------------------------------------------------
(* Frame properties of deleteQuestion and updateQuestion; question order *)

\* C11: deleteQuestion(id) for an id of the list shortens the list by exactly
\* one, removing the question with that id; every remaining question keeps its
\* id, its fields and its relative position; for an id not in the list the list
\* is unchanged.
C11_DeleteQuestionFrame ==
    [][\A id \in AllIds :
        DeleteQuestion(id) =>
            IF id \in Ids(questions)
            THEN LET n == Len(questions)
                     k == CHOOSE i \in 1..n : questions[i].id = id
                 IN /\ Len(questions') = n - 1
                    /\ id \notin Ids(questions')
                    /\ \A i \in 1..(k - 1) : questions'[i] = questions[i]
                    /\ \A i \in (k + 1)..n : questions'[i - 1] = questions[i]
            ELSE questions' = questions
    ]_vars

\* C11 witness: the middle question of three was deleted and the first and the
\* last are left, in that order
C11_Witness ==
    /\ Len(questions) = 2
    /\ questions[1].id = 100
    /\ questions[2].id = 2

\* C12: updateQuestion(id, fields) changes only the supplied fields of the one
\* question whose id matches, leaving list length, list order and every other
\* question unchanged; when no question has that id the whole draft is unchanged.
C12_UpdateQuestionFrame ==
    [][\A id \in AllIds, u \in QuestionUpdates :
        UpdateQuestion(id, u) =>
            IF id \in Ids(questions)
            THEN /\ Len(questions') = Len(questions)
                 /\ \A i \in 1..Len(questions) :
                       IF questions[i].id = id
                       THEN /\ DOMAIN questions'[i] = DOMAIN questions[i]
                            /\ \A f \in DOMAIN questions[i] :
                                  questions'[i][f] =
                                      IF f \in DOMAIN u THEN u[f] ELSE questions[i][f]
                       ELSE questions'[i] = questions[i]
                 /\ UNCHANGED <<title, description, selectedQuestionId>>
            ELSE UNCHANGED <<title, description, questions, selectedQuestionId>>
    ]_vars

\* C12 witness: of two questions the first was renamed and the second was not
C12_Witness ==
    /\ Len(questions) = 2
    /\ questions[1].text = "Q"
    /\ questions[2].text # "Q"
    /\ ~questions[2].required

\* C13: in a draft that started empty, after any addQuestion, deleteQuestion,
\* duplicateQuestion or updateQuestion every question's order equals its
\* position in the list (and so is unique within the draft).
C13_OrderIsPosition ==
    surveyProp = NoId => OrderIsIndex(questions)

\* C13 for the SurveyBuilder alone
C13_OrderIsPositionSurveyBuilder ==
    (surveyProp = NoId /\ component = "SurveyBuilder") => OrderIsIndex(questions)

----------------------------------------------------------------------------
(* Pagination of the Renderer *)

\* A published survey of n optional text questions
PagedSurvey(n) ==
    [id |-> 105, title |-> <<"P">>, description |-> <<>>,
     questions |-> [i \in 1..n |->
                       [id |-> 400 + i, type |-> "text", text |-> "Q",
                        required |-> FALSE, order |-> i]],
     createdBy |-> CurrentUser, createdAt |-> StoredEarlier,
     updatedAt |-> StoredEarlier, status |-> "active", responseCount |-> 0]

\* The form of such a survey, just loaded by the public view
InitPages ==
    /\ route = "view"
    /\ component = "none"
    /\ surveyProp = NoId
    /\ title = <<>>
    /\ description = <<>>
    /\ questions = <<>>
    /\ selectedQuestionId = NoId
    /\ saveStatus = "idle"
    /\ localSurveys = <<>>
    /\ localResponses = <<>>
    /\ fsResponses = {}
    /\ idCounter = 0
    /\ docCounter = 0
    /\ viewState = "form"
    /\ \E n \in 0..MaxPageQuestions :
          /\ fsSurveys = {PagedSurvey(n)}
          /\ rSurvey = PagedSurvey(n)
    /\ responses = NoAnswers
    /\ currentPage = 0
    /\ pending = <<>>
    /\ lastAlert = NoAlert
    /\ now = 1
    /\ surveyStartTime = 1
    /\ storageResult = NoResult
    /\ InitContext

NextPages ==
    \/ \E i \in 1..MaxPageQuestions : HandleResponseChange(i)
    \/ NextPage
    \/ PrevPage

SpecPages == InitPages /\ [][NextPages]_vars

\* The pages the Renderer can show
Pages(qs) == 0..(TotalPages(qs) - 1)

\* The zero-based indices of the questions page p shows
Shown(qs, p) == {i - 1 : i \in PageIndices(qs, p)}

Min(a, b) == IF a < b THEN a ELSE b

\* C14: the Renderer partitions the questions into pages of size 3 in list
\* order: totalPages = ceil(questionCount / 3), page p shows exactly the indices
\* 3p .. min(3p + 2, questionCount - 1), every question is on exactly one page,
\* and every page but the last holds exactly 3 questions.
C14_PagesPartitionQuestions ==
    LET qs == rSurvey.questions
        n == Len(qs)
        total == TotalPages(qs)
    IN FormShown =>
        /\ 3 * total >= n /\ 3 * (total - 1) < n
        /\ currentPage \in Pages(qs) \cup {0}
        /\ \A p \in Pages(qs) : Shown(qs, p) = (3 * p)..Min(3 * p + 2, n - 1)
        /\ \A i \in 0..(n - 1) :
              Cardinality({p \in Pages(qs) : i \in Shown(qs, p)}) = 1
        /\ \A p \in Pages(qs) : p # total - 1 => Cardinality(Shown(qs, p)) = 3

\* C14 witness: the third page of a survey of seven questions shows the one
\* question left, and it was answered there
C14_Witness ==
    /\ FormShown
    /\ Len(rSurvey.questions) = 7
    /\ currentPage = 2
    /\ PageIndices(rSurvey.questions, currentPage) = {7}
    /\ 407 \in DOMAIN responses

----------------------------------------------------------------------------
(* Storage service over localStorage: surveys *)

\* JSON.stringify of a time value: a Date becomes its ISO string, a string stays
Stringified(v) == IF "date" \in DOMAIN v THEN IsoString(v) ELSE v

\* JSON.stringify of a settings object
JsonSettings(st) ==
    [f \in DOMAIN st |->
        IF f \in {"startDate", "endDate"} THEN Stringified(st[f]) ELSE st[f]]

\* JSON.stringify then JSON.parse of a survey held in memory
JsonSurvey(survey) ==
    [f \in DOMAIN survey |->
        IF f \in {"createdAt", "updatedAt"} THEN Stringified(survey[f])
        ELSE IF f = "settings" THEN JsonSettings(survey[f])
        ELSE survey[f]]

\* parseSurveyDates
ParseSurveyDates(survey) ==
    Merge(survey,
          [createdAt |-> IF "createdAt" \in DOMAIN survey
                         THEN ParsedDate(survey.createdAt) ELSE DateOf(now),
           updatedAt |-> IF "updatedAt" \in DOMAIN survey
                         THEN ParsedDate(survey.updatedAt) ELSE DateOf(now)])

\* The argument of getSurveys() when no userId is given
AnyUser == "*"

\* surveys.filter(s => s.createdBy === userId), every survey when no userId
Filtered(surveys, userId) ==
    SelectSeq(surveys, LAMBDA x : userId = AnyUser \/ x.createdBy = userId)

\* getSurveys(userId?) on the stored array
GetSurveysOf(stored, userId) ==
    LET kept == Filtered(stored, userId)
    IN [i \in 1..Len(kept) |-> ParseSurveyDates(kept[i])]

GetSurveys(userId) == GetSurveysOf(localSurveys, userId)

\* The value getSurvey returns when no survey has the id
Null == [id |-> NoId]

\* getSurvey(surveyId) on the stored array
GetSurveyOf(stored, surveyId) ==
    LET surveys == GetSurveysOf(stored, AnyUser)
        index == SurveyIndex(surveys, surveyId)
    IN IF index # 0 THEN surveys[index] ELSE Null

GetSurvey(surveyId) == GetSurveyOf(localSurveys, surveyId)

\* newSurvey of saveSurvey
StorageNewSurvey(survey, userId, id) ==
    Merge(survey,
          [id |-> id, createdBy |-> userId,
           createdAt |-> DateOf(now), updatedAt |-> DateOf(now),
           status |-> IF "status" \in DOMAIN survey THEN survey.status ELSE "draft",
           responseCount |-> 0])

\* saveSurvey(survey, userId)
StorageSaveSurvey(survey, userId) ==
    /\ Len(localSurveys) < MaxSurveys
    /\ docCounter < MaxDocs
    /\ LET newSurvey == StorageNewSurvey(survey, userId, FreshDocId)
           surveys == Append(GetSurveys(AnyUser), newSurvey)
       IN /\ localSurveys' = [i \in 1..Len(surveys) |-> JsonSurvey(surveys[i])]
          /\ storageResult' = [op |-> "saveSurvey", ok |-> TRUE, id |-> newSurvey.id]
    /\ docCounter' = docCounter + 1
    /\ UNCHANGED <<route, builderVars, idCounter, localResponses, fsSurveys,
                   fsResponses, rendererVars, surveyStartTime, now,
                   contextVars>>

\* updateSurvey(surveyId, updates)
StorageUpdateSurvey(surveyId, updates) ==
    /\ IF SurveyIndex(localSurveys, surveyId) = 0
       THEN /\ storageResult' = [op |-> "updateSurvey", ok |-> FALSE,
                                 error |-> "Survey not found"]
            /\ UNCHANGED localSurveys
       ELSE /\ localSurveys' = StorageUpdated(localSurveys, surveyId, updates)
            /\ storageResult' = [op |-> "updateSurvey", ok |-> TRUE, id |-> surveyId]
    /\ UNCHANGED <<route, builderVars, idCounter, docCounter, localResponses,
                   fsSurveys, fsResponses, rendererVars, surveyStartTime, now,
                   contextVars>>

\* A filter that keeps only the survey with the id
SurveysOnly(surveys, surveyId) ==
    SelectSeq(surveys, LAMBDA x : x.id = surveyId)

\* surveys.filter(s => s.id !== surveyId)
SurveysWithout(surveys, surveyId) ==
    SelectSeq(surveys, LAMBDA x : x.id # surveyId)

\* deleteSurvey(surveyId)
StorageDeleteSurvey(surveyId) ==
    /\ localSurveys' = SurveysWithout(localSurveys, surveyId)
    /\ storageResult' = [op |-> "deleteSurvey", ok |-> TRUE, id |-> surveyId]
    /\ UNCHANGED <<route, builderVars, idCounter, docCounter, localResponses,
                   fsSurveys, fsResponses, rendererVars, surveyStartTime, now,
                   contextVars>>

\* sampleSurvey of createSampleSurveys
SampleSurvey(userId) ==
    [title |-> <<"S">>, description |-> <<"d">>, createdBy |-> userId,
     questions |-> <<[id |-> 100, type |-> "text", text |-> "Name?",
                      required |-> TRUE, order |-> 0]>>,
     status |-> "active", responseCount |-> 3,
     settings |-> [showProgressBar |-> TRUE]]

\* The surveys handed to saveSurvey: the sample survey, a draft without status
\* or settings, and a survey whose settings carry an end date
SurveyInputs(userId) ==
    {SampleSurvey(userId),
     [title |-> <<"N">>, createdBy |-> userId, questions |-> <<>>,
      responseCount |-> 0],
     [title |-> <<"D">>, createdBy |-> userId, questions |-> <<>>,
      status |-> "draft", responseCount |-> 0,
      settings |-> [showProgressBar |-> TRUE, endDate |-> DateOf(5000)]]}

Users == {"u1", "u2"}

SurveyUpdates == {[title |-> <<"T">>], [status |-> "completed"]}

StorageIds == {LocalExisting.id, FreshDocId - 1, MissingSurveyId}

NextStorage ==
    \/ Tick
    \/ \E userId \in Users :
          \E survey \in SurveyInputs(userId) : StorageSaveSurvey(survey, userId)
    \/ \E id \in StorageIds, updates \in SurveyUpdates :
          StorageUpdateSurvey(id, updates)
    \/ \E id \in StorageIds : StorageDeleteSurvey(id)
    \/ \E id \in StorageIds :
          StorageSaveResponse(id, WithAnswer(NoAnswers, 100, StrAnswer("a")))

SpecStorage == InitRespondent /\ [][NextStorage]_vars

----------------------------------------------------------------------------
(* Properties of the storage service *)

NotTimestamp(f) == f \notin {"createdAt", "updatedAt"}

\* C15: updateSurvey(id, fields) with no stored survey of that id fails with the
\* not-found error and leaves the stored surveys unchanged; otherwise the stored
\* record becomes the old record with the fields merged in and updatedAt
\* refreshed, and every other stored survey is unchanged.
C15_UpdateSurveyContract ==
    [][\A id \in StorageIds, u \in SurveyUpdates :
        StorageUpdateSurvey(id, u) =>
            IF id \notin LocalIds
            THEN /\ storageResult'.ok = FALSE
                 /\ storageResult'.error = "Survey not found"
                 /\ UNCHANGED <<localSurveys, localResponses>>
            ELSE LET k == CHOOSE i \in 1..Len(localSurveys) : localSurveys[i].id = id
                     old == localSurveys[k]
                     new == localSurveys'[k]
                 IN /\ storageResult'.ok
                    /\ Len(localSurveys') = Len(localSurveys)
                    /\ \A i \in 1..Len(localSurveys) :
                          i # k => localSurveys'[i] = localSurveys[i]
                    /\ DOMAIN new = DOMAIN old \cup DOMAIN u
                    /\ \A f \in DOMAIN new :
                          new[f] = IF f = "updatedAt" THEN [iso |-> now]
                                   ELSE IF f \in DOMAIN u THEN u[f] ELSE old[f]
    ]_vars

\* C15 witness: a stored survey was retitled by updateSurvey after it was
\* created, and carries the time of the update
C15_Witness ==
    /\ storageResult.op = "updateSurvey"
    /\ storageResult.ok
    /\ \E i \in 1..Len(localSurveys) :
          /\ localSurveys[i].id = storageResult.id
          /\ localSurveys[i].title = <<"T">>
          /\ localSurveys[i].updatedAt = [iso |-> now]
          /\ localSurveys[i].createdAt.iso < now

\* C16: the survey getSurvey loads right after saveSurvey equals the survey
\* handed to saveSurvey in every field except createdAt and updatedAt.
C16_SaveLoadRoundTrip ==
    [][\A userId \in Users :
        \A survey \in SurveyInputs(userId) :
            StorageSaveSurvey(survey, userId) =>
                LET loaded == GetSurveyOf(localSurveys', storageResult'.id)
                IN /\ loaded # Null
                   /\ \A f \in DOMAIN survey :
                         NotTimestamp(f) =>
                             f \in DOMAIN loaded /\ loaded[f] = survey[f]
    ]_vars

\* C16 for the survey saveSurvey returns instead of the one handed to it
C16_SaveLoadRoundTripReturned ==
    [][\A userId \in Users :
        \A survey \in SurveyInputs(userId) :
            StorageSaveSurvey(survey, userId) =>
                LET saved == StorageNewSurvey(survey, userId, FreshDocId)
                    loaded == GetSurveyOf(localSurveys', storageResult'.id)
                IN /\ DOMAIN loaded = DOMAIN saved
                   /\ \A f \in DOMAIN saved :
                         NotTimestamp(f) => loaded[f] = saved[f]
    ]_vars

SortedByUpdatedAtDesc(surveys) ==
    \A i, j \in 1..Len(surveys) :
        i < j => surveys[i].updatedAt.date >= surveys[j].updatedAt.date

\* C17: getSurveys(ownerId?) returns exactly the stored surveys (those of the
\* owner when one is given), ordered by updatedAt descending.
C17_ListSortedByUpdatedAt ==
    \A userId \in Users \cup {AnyUser} :
        LET listed == GetSurveys(userId)
        IN /\ {listed[i].id : i \in 1..Len(listed)} =
                  {localSurveys[i].id : i \in
                      {j \in 1..Len(localSurveys) :
                          userId = AnyUser \/ localSurveys[j].createdBy = userId}}
           /\ SortedByUpdatedAtDesc(listed)

\* C18: deleteSurvey(id) removes the survey with that id (getSurvey(id) then
\* finds none), leaves every other stored survey unchanged and leaves the stored
\* responses unchanged, those of the deleted survey included.
C18_DeleteSurveyFrame ==
    [][\A id \in StorageIds :
        StorageDeleteSurvey(id) =>
            /\ GetSurveyOf(localSurveys', id) = Null
            /\ \A i \in 1..Len(localSurveys) :
                  localSurveys[i].id # id =>
                      \E j \in 1..Len(localSurveys') : localSurveys'[j] = localSurveys[i]
            /\ \A j \in 1..Len(localSurveys') :
                  \E i \in 1..Len(localSurveys) : localSurveys[i] = localSurveys'[j]
            /\ localResponses' = localResponses
    ]_vars

\* C18 witness: the stored survey was deleted, another survey is still stored,
\* and the response to the deleted survey is still stored
C18_Witness ==
    /\ storageResult.op = "deleteSurvey"
    /\ storageResult.id = LocalExisting.id
    /\ LocalExisting.id \notin LocalIds
    /\ Len(localSurveys) = 1
    /\ \E i \in 1..Len(localResponses) : localResponses[i].surveyId = LocalExisting.id

----------------------------------------------------------------------------
(* Every operation that changes a stored survey, with the clock running *)

NextStamps ==
    \/ Tick
    \/ \E t \in {<<"T">>} : SetTitle(t)
    \/ HandleSave
    \/ \E updates \in SurveyUpdates : StorageUpdateSurvey(LocalExisting.id, updates)
    \/ StorageSaveResponse(LocalExisting.id, WithAnswer(NoAnswers, 100, StrAnswer("a")))
    \/ ToggleStatus(FsExisting.id)

SpecStamps == InitDraft /\ [][NextStamps]_vars

\* C19: every step that changes a stored survey leaves that survey's updatedAt
\* at the time of the step.
C19_UpdatedAtFollowsMutation ==
    [][/\ \A i \in 1..Len(localSurveys) :
             \A j \in 1..Len(localSurveys') :
                 (localSurveys[i].id = localSurveys'[j].id
                    /\ localSurveys[i] # localSurveys'[j])
                 => localSurveys'[j].updatedAt = [iso |-> now]
       /\ \A old \in fsSurveys :
             \A new \in fsSurveys' :
                 (old.id = new.id /\ old # new)
                 => new.updatedAt = [seconds |-> now \div 1000, millis |-> now % 1000]
    ]_vars

----------------------------------------------------------------------------
(* The Renderer with the clock running *)

InitTiming ==
    /\ InitNoBuilder
    /\ InitRenderer
    /\ InitTime
    /\ InitContext
    /\ localSurveys = <<>>
    /\ localResponses = <<>>
    /\ fsSurveys = {PagedSurvey(1)}
    /\ fsResponses = {}
    /\ idCounter = 0
    /\ docCounter = 0

NextTiming ==
    \/ Tick
    \/ OpenView(PagedSurvey(1).id)
    \/ LoadView
    \/ HandleResponseChange(1)
    \/ SubmitOnce
    \/ SubmitSucceeds
    \/ SubmitFails

SpecTiming == InitTiming /\ [][NextTiming]_vars

\* C20: the completionTime of the Response a submit hands over is the number of
\* whole seconds between the first render of the form and the submit.
C20_CompletionTimeInSeconds ==
    [][SubmitStart =>
        pending'[Len(pending')].completionTime = (now - surveyStartTime) \div 1000
    ]_vars

----------------------------------------------------------------------------
(* The Builder's active selection *)

\* C29: after any sequence of addQuestion, select, updateQuestion,
\* deleteQuestion and duplicateQuestion the active selection is empty or the id
\* of a question of the list, and deleteQuestion(id) empties it when it pointed
\* at the removed question and leaves it unchanged when it pointed at another.
C29_SelectionFollowsDelete ==
    /\ [](selectedQuestionId = NoId \/ selectedQuestionId \in Ids(questions))
    /\ [][\A id \in AllIds :
            DeleteQuestion(id) =>
                selectedQuestionId' =
                    IF selectedQuestionId = id THEN NoId ELSE selectedQuestionId
       ]_vars

\* C29 for the SurveyBuilder alone
C29_SelectionFollowsDeleteSurveyBuilder ==
    /\ [](component = "SurveyBuilder" =>
            (selectedQuestionId = NoId \/ selectedQuestionId \in Ids(questions)))
    /\ [][\A id \in AllIds :
            (DeleteQuestion(id) /\ component = "SurveyBuilder") =>
                selectedQuestionId' =
                    IF selectedQuestionId = id THEN NoId ELSE selectedQuestionId
       ]_vars

----------------------------------------------------------------------------
(* Navigation of the Renderer *)

Max(a, b) == IF a > b THEN a ELSE b

\* The last page of the form, page 0 when there are no questions
LastPage(qs) == Max(0, TotalPages(qs) - 1)

\* C30: currentPage starts at 0; a next or previous action changes it by exactly
\* one or leaves it unchanged at a boundary, and no step moves it further;
\* 0 <= currentPage <= max(0, totalPages - 1) in every reachable state;
\* navigation never changes the captured answers; Submit is offered only on the
\* last page.
C30_NavigationSequentialBounded ==
    /\ currentPage = 0
    /\ [](FormShown =>
            /\ 0 <= currentPage
            /\ currentPage <= LastPage(rSurvey.questions)
            /\ (SubmitOffered <=> currentPage = LastPage(rSurvey.questions)))
    /\ [][/\ NextPage =>
                /\ currentPage' = IF currentPage = LastPage(rSurvey.questions)
                                  THEN currentPage ELSE currentPage + 1
                /\ responses' = responses
          /\ PrevPage =>
                /\ currentPage' = IF currentPage = 0
                                  THEN currentPage ELSE currentPage - 1
                /\ responses' = responses
          /\ currentPage' - currentPage \in {-1, 0, 1}
       ]_vars

\* C30 witness: the respondent answered on the first page, went to the third
\* and last page of seven questions and came back to the second; the answer is
\* still captured and Submit is not offered there
C30_Witness ==
    /\ FormShown
    /\ Len(rSurvey.questions) = 7
    /\ currentPage = 1
    /\ 401 \in DOMAIN responses
    /\ 407 \in DOMAIN responses
    /\ ~SubmitOffered

----------------------------------------------------------------------------
(* A Builder mounted with no survey, as the builder pages mount it, on stores *)
(* that hold nothing yet                                                    *)

InitEmptyStores ==
    /\ localSurveys = <<>>
    /\ localResponses = <<>>
    /\ fsSurveys = {}
    /\ fsResponses = {}
    /\ idCounter = 0
    /\ docCounter = 0

InitNewSurvey ==
    /\ InitBuilder
    /\ surveyProp = NoId
    /\ InitEmptyStores
    /\ InitRenderer
    /\ InitTime
    /\ InitContext

NextNewSurvey ==
    \/ \E t \in TitleInputs : SetTitle(t)
    \/ AddQuestion("text")
    \/ HandleSave

SpecNewSurvey == InitNewSurvey /\ [][NextNewSurvey]_vars

\* C28: a Builder that starts with no survey id and stays open creates at most
\* one persisted Survey: its saves after the first successful one update that
\* record instead of inserting another.
C28_OneSurveyPerBuilder ==
    surveyProp = NoId => Cardinality(StoredSurveys) <= 1

----------------------------------------------------------------------------
(* The survey a Response is persisted for *)

\* C27: every Response the Renderer persists carries the id of a persisted
\* Survey whose status is active at the moment the Response is saved, also when
\* the owner toggles the survey to draft after the respondent loaded the form.
C27_ResponseForActiveSurvey ==
    [][SubmitSucceeds =>
        \E s \in fsSurveys :
            s.id = Head(pending).surveyId /\ s.status = "active"
    ]_vars

----------------------------------------------------------------------------
(* One Renderer session, with a respondent who may click Submit repeatedly *)

\* The form of a survey of at most two questions, just loaded
InitResubmit == InitPages /\ Len(rSurvey.questions) <= 2

NextResubmit ==
    \/ \E i \in 1..2 : HandleResponseChange(i)
    \/ SubmitStart
    \/ SubmitSucceeds
    \/ SubmitFails
    \/ SubmitLands
    \/ SubmitDropped

SpecResubmit == InitResubmit /\ [][NextResubmit]_vars

\* C26: one Renderer session persists at most one Response, also when Submit is
\* clicked again before the first persistence call has completed.
C26_OneResponsePerSession ==
    Cardinality(fsResponses) <= 1

----------------------------------------------------------------------------
(* Response analysis (QuestionAnalysis of the responses page) *)

MaxAnalysed == 3

RECURSIVE Sum(_, _)
\* reduce((sum, x) => sum + f[x], 0) over the elements of S
Sum(f, S) ==
    IF S = {} THEN 0
    ELSE LET x == CHOOSE y \in S : TRUE
         IN f[x] + Sum(f, S \ {x})

\* Math.round(num / den) for num >= 0 and den > 0
Round(num, den) == (2 * num + den) \div (2 * den)

\* answer !== undefined && answer !== null && answer !== ''
PassesFilter(r, qid) ==
    /\ qid \in DOMAIN r.responses
    /\ ~(r.responses[qid].kind = "str" /\ r.responses[qid].v = "")

\* answers: the responses whose answer to the question passes the filter
AnswersOf(q, docs) == {r \in docs : PassesFilter(r, q.id)}

\* responseRate
ResponseRate(q, docs) ==
    IF Cardinality(docs) > 0
    THEN Round(100 * Cardinality(AnswersOf(q, docs)), Cardinality(docs))
    ELSE 0

\* What one answer adds to choiceCounts[choice]
Tally(a, choice) ==
    IF a.kind = "arr" THEN Cardinality({i \in 1..Len(a.v) : a.v[i] = choice})
    ELSE IF a.kind = "str" /\ a.v = choice THEN 1
    ELSE 0

\* choiceCounts[choice] || 0
ChoiceCount(q, docs, choice) ==
    Sum([r \in AnswersOf(q, docs) |-> Tally(r.responses[q.id], choice)],
        AnswersOf(q, docs))

\* The rows of the choice branch, one per option of the question
ChoiceRows(q, docs) ==
    [i \in 1..Len(OptionsOf(q)) |->
        LET count == ChoiceCount(q, docs, OptionsOf(q)[i])
        IN [choice |-> OptionsOf(q)[i],
            count |-> count,
            percentage |-> Round(100 * count, Cardinality(AnswersOf(q, docs)))]]

\* answers.filter(a => typeof a === 'number')
Ratings(q, docs) == {r \in AnswersOf(q, docs) : r.responses[q.id].kind = "num"}

\* (sum / length).toFixed(1), as the number of tenths
ToFixed1(sum, length) ==
    IF sum >= 0 THEN Round(10 * sum, length) ELSE 0 - Round(10 * (0 - sum), length)

\* average of the rating branch
Average(q, docs) ==
    IF Ratings(q, docs) = {} THEN [text |-> "N/A"]
    ELSE [tenths |->
            ToFixed1(Sum([r \in Ratings(q, docs) |-> r.responses[q.id].v],
                         Ratings(q, docs)),
                     Cardinality(Ratings(q, docs)))]

\* The rows of the rating branch, one per value of the scale
RatingRows(q, docs) ==
    [value \in ScaleOf(q).min .. ScaleOf(q).max |->
        LET count == Cardinality({r \in Ratings(q, docs) :
                                     r.responses[q.id].v = value})
        IN [count |-> count,
            percentage |-> Round(100 * count, Cardinality(Ratings(q, docs)))]]

\* What QuestionAnalysis renders for the question over the responses
QuestionAnalysis(q, docs) ==
    LET head == [questionId |-> q.id,
                 responseRate |-> ResponseRate(q, docs),
                 answered |-> Cardinality(AnswersOf(q, docs))]
    IN IF AnswersOf(q, docs) = {} THEN Merge(head, [view |-> "No responses"])
       ELSE IF q.type \in {"multiple-choice", "checkbox"}
       THEN Merge(head, [view |-> "choices", rows |-> ChoiceRows(q, docs)])
       ELSE IF q.type = "rating"
       THEN Merge(head, [view |-> "rating", average |-> Average(q, docs),
                         rows |-> RatingRows(q, docs)])
       ELSE Merge(head, [view |-> "count"])

\* A published survey with one question of each analysed kind
AnalysedSurvey ==
    [id |-> 106, title |-> <<"A">>, description |-> <<>>,
     questions |->
        <<[id |-> 501, type |-> "checkbox", text |-> "Pick", required |-> FALSE,
           order |-> 1, options |-> <<"A", "B">>],
          [id |-> 502, type |-> "multiple-choice", text |-> "Plan",
           required |-> FALSE, order |-> 2, options |-> <<"X", "Y">>],
          [id |-> 503, type |-> "rating", text |-> "Rate", required |-> FALSE,
           order |-> 3, scale |-> [min |-> 1, max |-> 5,
                                   minLabel |-> "Poor", maxLabel |-> "Excellent"]],
          [id |-> 504, type |-> "text", text |-> "Name", required |-> FALSE,
           order |-> 4]>>,
     createdBy |-> CurrentUser, createdAt |-> StoredEarlier,
     updatedAt |-> StoredEarlier, status |-> "active", responseCount |-> 0]

\* A question the respondent left untouched
Skipped == [kind |-> "none"]

\* The answers the Renderer's control of the question can leave in a Response
AnswerInputs(q) ==
    {Skipped} \cup
    (CASE q.type = "checkbox" ->
            {ArrAnswer(<<>>), ArrAnswer(<<"A">>), ArrAnswer(<<"B">>),
             ArrAnswer(<<"A", "B">>)}
       [] q.type = "multiple-choice" -> {StrAnswer("X"), StrAnswer("Y")}
       [] q.type = "rating" -> {NumAnswer(v) : v \in 1..5}
       [] OTHER -> {StrAnswer(""), StrAnswer("a")})

\* The Response document of the i-th respondent, who answered question q with a
ResponseDoc(i, q, a) ==
    [id |-> 600 + i, surveyId |-> AnalysedSurvey.id,
     responses |-> IF a = Skipped THEN NoAnswers
                   ELSE WithAnswer(NoAnswers, q.id, a),
     isComplete |-> TRUE, completionTime |-> 0, submittedAt |-> StoredEarlier]

\* The owner, with the FormBuilder open on the survey, and the responses
\* collected for one of its questions
InitAnalysis ==
    /\ route = "builder"
    /\ component = "FormBuilder"
    /\ surveyProp = AnalysedSurvey.id
    /\ title = AnalysedSurvey.title
    /\ description = AnalysedSurvey.description
    /\ questions = AnalysedSurvey.questions
    /\ selectedQuestionId = NoId
    /\ saveStatus = "idle"
    /\ localSurveys = <<>>
    /\ localResponses = <<>>
    /\ fsSurveys = {AnalysedSurvey}
    /\ \E k \in 1..Len(AnalysedSurvey.questions), n \in 0..MaxAnalysed :
          \E f \in [1..n -> AnswerInputs(AnalysedSurvey.questions[k])] :
             fsResponses =
                {ResponseDoc(i, AnalysedSurvey.questions[k], f[i]) : i \in 1..n}
    /\ idCounter = 0
    /\ docCounter = 0
    /\ InitRenderer
    /\ InitTime
    /\ InitContext

\* The updates the Max input of the properties panel issues for the rating
\* question: parseInt(e.target.value) || 5 with the other scale fields kept
ScaleUpdates ==
    {[scale |-> [min |-> 1, max |-> max,
                 minLabel |-> "Poor", maxLabel |-> "Excellent"]] : max \in {4, 5}}

\* The responses page renders QuestionAnalysis for the i-th question
RenderAnalysis(i) ==
    /\ \E survey \in fsSurveys :
          /\ survey.id = AnalysedSurvey.id
          /\ i \in 1..Len(survey.questions)
          /\ LET docs == ResponsesOfFs(survey.id)
             IN /\ Cardinality(docs) > 0
                /\ analysis' = QuestionAnalysis(survey.questions[i], docs)
    /\ UNCHANGED <<route, builderVars, idCounter, docCounter, storeVars,
                   rendererVars, timeVars, calls, peer>>

NextAnalysis ==
    \/ \E i \in 1..Len(AnalysedSurvey.questions) : RenderAnalysis(i)
    \/ \E u \in ScaleUpdates : UpdateQuestion(503, u)
    \/ SaveFirestore

SpecAnalysis == InitAnalysis /\ [][NextAnalysis]_vars

\* The i-th question of the stored survey the responses page shows
AnalysedQuestion(i) ==
    (CHOOSE s \in fsSurveys : s.id = AnalysedSurvey.id).questions[i]

\* The Responses holding a non-empty answer for the question: not absent, not
\* the empty string, not an empty array
NonEmptyAnswers(q, docs) ==
    {r \in docs : /\ q.id \in DOMAIN r.responses
                  /\ ~(r.responses[q.id].kind = "str" /\ r.responses[q.id].v = "")
                  /\ ~(r.responses[q.id].kind = "arr" /\ r.responses[q.id].v = <<>>)}

\* C21: the answered set of a question is exactly the Responses holding a
\* non-empty answer for it (not absent, not the empty string, not an empty
\* array), and responseRate = round(100 * answeredCount / totalResponses), 0
\* when there are no responses.
C21_AnsweredAndResponseRate ==
    [][\A i \in 1..Len(AnalysedSurvey.questions) :
        RenderAnalysis(i) =>
            LET q == AnalysedQuestion(i)
                docs == ResponsesOfFs(AnalysedSurvey.id)
                nonEmpty == NonEmptyAnswers(q, docs)
            IN /\ ResponseRate(q, {}) = 0
               /\ AnswersOf(q, docs) = nonEmpty
               /\ analysis'.answered = Cardinality(nonEmpty)
               /\ analysis'.responseRate =
                      Round(100 * Cardinality(nonEmpty), Cardinality(docs))
    ]_vars

\* The number of Responses of the set that selected the option
Selected(q, answered, choice) ==
    Cardinality({r \in answered :
        LET a == r.responses[q.id]
        IN IF a.kind = "arr" THEN InSeq(choice, a.v)
           ELSE a.kind = "str" /\ a.v = choice})

\* C22: for a choice question the count reported for each option is the number
\* of answered Responses that selected it (a multi-choice answer counts for
\* every option it contains, a single-choice answer for its one option), and
\* each option's percentage is round(100 * count / answeredCount).
C22_ChoiceCountsAndPercentages ==
    [][\A i \in 1..Len(AnalysedSurvey.questions) :
        (RenderAnalysis(i) /\ AnalysedQuestion(i).type \in {"multiple-choice", "checkbox"}) =>
            LET q == AnalysedQuestion(i)
                answered == NonEmptyAnswers(q, ResponsesOfFs(AnalysedSurvey.id))
            IN answered # {} =>
                /\ analysis'.view = "choices"
                /\ Len(analysis'.rows) = Len(q.options)
                /\ \A k \in 1..Len(q.options) :
                      /\ analysis'.rows[k].choice = q.options[k]
                      /\ analysis'.rows[k].count = Selected(q, answered, q.options[k])
                      /\ analysis'.rows[k].percentage =
                            Round(100 * analysis'.rows[k].count, Cardinality(answered))
    ]_vars

\* C22 with the answered count taken as the length of the filtered answers,
\* empty arrays included
C22_ChoiceCountsOverFilteredAnswers ==
    [][\A i \in 1..Len(AnalysedSurvey.questions) :
        (RenderAnalysis(i) /\ AnalysedQuestion(i).type \in {"multiple-choice", "checkbox"}) =>
            LET q == AnalysedQuestion(i)
                answered == AnswersOf(q, ResponsesOfFs(AnalysedSurvey.id))
            IN answered # {} =>
                /\ analysis'.view = "choices"
                /\ \A k \in 1..Len(q.options) :
                      /\ analysis'.rows[k].count = Selected(q, answered, q.options[k])
                      /\ analysis'.rows[k].percentage =
                            Round(100 * analysis'.rows[k].count, Cardinality(answered))
    ]_vars

\* The number of numeric answers of the set, and their sum
NumericAnswers(q, answered) == {r \in answered : r.responses[q.id].kind = "num"}

\* C23: for a rating question the reported average is the mean of the numeric
\* answers rounded to one decimal place (5, 4, 5 give 4.7), and the frequency
\* distribution has one entry per integer of [scale.min, scale.max] whose counts
\* sum to the answered count.
C23_RatingAverageAndDistribution ==
    [][\A i \in 1..Len(AnalysedSurvey.questions) :
        (RenderAnalysis(i) /\ AnalysedQuestion(i).type = "rating") =>
            LET q == AnalysedQuestion(i)
                answered == NonEmptyAnswers(q, ResponsesOfFs(AnalysedSurvey.id))
                numeric == NumericAnswers(q, answered)
                total == Sum([r \in numeric |-> r.responses[q.id].v], numeric)
                n == Cardinality(numeric)
            IN answered # {} =>
                /\ analysis'.view = "rating"
                /\ n > 0 =>
                      /\ 2 * (10 * total - n * analysis'.average.tenths) <= n
                      /\ 2 * (n * analysis'.average.tenths - 10 * total) <= n
                /\ ({r.responses[q.id].v : r \in numeric} = {4, 5} /\ total = 14 =>
                      analysis'.average.tenths = 47)
                /\ DOMAIN analysis'.rows = q.scale.min .. q.scale.max
                /\ Sum([v \in DOMAIN analysis'.rows |-> analysis'.rows[v].count],
                       DOMAIN analysis'.rows) = Cardinality(answered)
    ]_vars

\* C23 without the sum of the distribution
C23_RatingAverage ==
    [][\A i \in 1..Len(AnalysedSurvey.questions) :
        (RenderAnalysis(i) /\ AnalysedQuestion(i).type = "rating") =>
            LET q == AnalysedQuestion(i)
                answered == NonEmptyAnswers(q, ResponsesOfFs(AnalysedSurvey.id))
                numeric == NumericAnswers(q, answered)
                total == Sum([r \in numeric |-> r.responses[q.id].v], numeric)
                n == Cardinality(numeric)
            IN answered # {} =>
                /\ analysis'.view = "rating"
                /\ n > 0 =>
                      /\ 2 * (10 * total - n * analysis'.average.tenths) <= n
                      /\ 2 * (n * analysis'.average.tenths - 10 * total) <= n
                /\ ({r.responses[q.id].v : r \in numeric} = {4, 5} /\ total = 14 =>
                      analysis'.average.tenths = 47)
                /\ DOMAIN analysis'.rows = q.scale.min .. q.scale.max
    ]_vars

----------------------------------------------------------------------------
(* saveResponse run by two browser contexts that share localStorage: one    *)
(* step per localStorage access                                             *)

\* An increment computed from the count the store holds when it is written
IncrementUpdatesCurrent(survey) ==
    [responseCount |-> GetSurvey(survey.id).responseCount + 1]

\* { responseCount: (survey.responseCount || 0) + 1 } for the survey read
IncrementUpdates(survey) ==
    [responseCount |-> survey.responseCount + 1]

\* saveResponse(response) is called: getResponses() reads the stored responses
CallSaveResponse(c, surveyId, answers) ==
    /\ calls[c].pc = "idle"
    /\ calls' = [calls EXCEPT ![c] =
            [pc |-> "responsesRead", surveyId |-> surveyId, answers |-> answers,
             responses |-> localResponses]]
    /\ UNCHANGED <<route, builderVars, idCounter, docCounter, storeVars,
                   rendererVars, timeVars, analysis, peer>>

\* saveResponse: the new response is pushed and the array is written back
WriteResponses(c) ==
    /\ calls[c].pc = "responsesRead"
    /\ Len(calls[c].responses) < MaxResponses
    /\ localResponses' = Append(calls[c].responses,
            [id |-> FreshDocId, surveyId |-> calls[c].surveyId,
             responses |-> calls[c].answers, isComplete |-> TRUE,
             submittedAt |-> IsoString(DateOf(now))])
    /\ docCounter' = docCounter + 1
    /\ calls' = [calls EXCEPT ![c] =
            [pc |-> "responsesWritten", surveyId |-> calls[c].surveyId]]
    /\ UNCHANGED <<route, builderVars, idCounter, localSurveys, fsSurveys,
                   fsResponses, rendererVars, timeVars, analysis, peer>>

\* incrementResponseCount: getSurvey(surveyId) reads the survey
ReadSurvey(c) ==
    /\ calls[c].pc = "responsesWritten"
    /\ LET survey == GetSurvey(calls[c].surveyId)
       IN calls' = [calls EXCEPT ![c] =
              IF survey = Null THEN [pc |-> "done", surveyId |-> calls[c].surveyId]
              ELSE [pc |-> "surveyRead", surveyId |-> calls[c].surveyId,
                    survey |-> survey]]
    /\ UNCHANGED <<route, builderVars, idCounter, docCounter, storeVars,
                   rendererVars, timeVars, analysis, peer>>

\* updateSurvey: getSurveys() reads the stored surveys
ReadSurveys(c) ==
    /\ calls[c].pc = "surveyRead"
    /\ calls' = [calls EXCEPT ![c] =
            [pc |-> "surveysRead", surveyId |-> calls[c].surveyId,
             survey |-> calls[c].survey, surveys |-> localSurveys]]
    /\ UNCHANGED <<route, builderVars, idCounter, docCounter, storeVars,
                   rendererVars, timeVars, analysis, peer>>

\* updateSurvey: the survey found is merged with the updates and the array is
\* written back; nothing is written when the survey is not found
WriteSurveys(c) ==
    /\ calls[c].pc = "surveysRead"
    /\ localSurveys' =
          IF SurveyIndex(calls[c].surveys, calls[c].surveyId) = 0
          THEN localSurveys
          ELSE StorageUpdated(calls[c].surveys, calls[c].surveyId,
                              IncrementUpdates(calls[c].survey))
    /\ calls' = [calls EXCEPT ![c] = [pc |-> "done", surveyId |-> calls[c].surveyId]]
    /\ UNCHANGED <<route, builderVars, idCounter, docCounter, localResponses,
                   fsSurveys, fsResponses, rendererVars, timeVars, analysis, peer>>

\* The stored survey before any response was saved for it
LocalUnanswered == [LocalExisting EXCEPT !.responseCount = 0]

InitTabs ==
    /\ InitNoBuilder
    /\ InitRenderer
    /\ InitTime
    /\ InitContext
    /\ localSurveys = <<LocalUnanswered>>
    /\ localResponses = <<>>
    /\ fsSurveys = {}
    /\ fsResponses = {}
    /\ idCounter = 0
    /\ docCounter = 0

TabAnswers ==
    {WithAnswer(NoAnswers, 100, StrAnswer("a")), WithAnswer(NoAnswers, 100, StrAnswer(""))}

NextTabs ==
    \/ \E c \in Contexts, id \in {LocalExisting.id, MissingSurveyId} :
          \E answers \in TabAnswers : CallSaveResponse(c, id, answers)
    \/ \E c \in Contexts : WriteResponses(c)
    \/ \E c \in Contexts : ReadSurvey(c)
    \/ \E c \in Contexts : ReadSurveys(c)
    \/ \E c \in Contexts : WriteSurveys(c)

SpecTabs == InitTabs /\ [][NextTabs]_vars

\* C24: the response-count increment is a read of the count followed, in a
\* later step, by a write of that count + 1, whatever the store holds by then;
\* so two interleaved submissions to one Survey can leave both Responses stored
\* and responseCount grown by only one.
C24_IncrementReadThenWrite ==
    [][\A c \in Contexts :
        WriteSurveys(c) =>
            /\ calls[c].pc = "surveysRead"
            /\ "survey" \in DOMAIN calls[c]
            /\ (calls[c].surveyId \in LocalIds' =>
                  GetSurveyOf(localSurveys', calls[c].surveyId).responseCount
                      = calls[c].survey.responseCount + 1)
    ]_vars

\* C24 witness: both contexts have finished saveResponse for the same survey,
\* both Responses are stored, and responseCount went from 0 to 1
C24_Witness ==
    /\ \A c \in Contexts : calls[c].pc = "done" /\ calls[c].surveyId = LocalExisting.id
    /\ Len(localResponses) = 2
    /\ \A i \in 1..2 : localResponses[i].surveyId = LocalExisting.id
    /\ GetSurvey(LocalExisting.id).responseCount = 1

----------------------------------------------------------------------------
(* Two Builder instances open on the same stored survey *)

\* The draft a second Builder instance holds when it is mounted on the survey
PeerOn(survey) ==
    [open |-> TRUE, title |-> survey.title, description |-> survey.description,
     questions |-> survey.questions, saveStatus |-> "idle", saved |-> Null]

\* setTitle in the second instance
PeerSetTitle(t) ==
    /\ peer.open
    /\ peer' = [peer EXCEPT !.title = t]
    /\ UNCHANGED <<route, builderVars, idCounter, docCounter, storeVars,
                   rendererVars, timeVars, analysis, calls>>

\* updateQuestion in the second instance
PeerUpdateQuestion(id, updates) ==
    /\ peer.open
    /\ peer' = [peer EXCEPT !.questions = UpdatedQuestions(peer.questions, id, updates)]
    /\ UNCHANGED <<route, builderVars, idCounter, docCounter, storeVars,
                   rendererVars, timeVars, analysis, calls>>

\* handleSave of the second instance with a blank title
PeerSaveInvalid ==
    /\ peer.open
    /\ TitleBlank(peer.title)
    /\ peer' = [peer EXCEPT !.saveStatus = "invalid"]
    /\ UNCHANGED <<route, builderVars, idCounter, docCounter, storeVars,
                   rendererVars, timeVars, analysis, calls>>

\* handleSave of the second instance, mutationFn completing on the update branch
PeerSaveSucceeds ==
    /\ peer.open
    /\ ~TitleBlank(peer.title)
    /\ surveyProp # NoId
    /\ LET data == SaveData(component, peer.title, peer.description, peer.questions)
       IN /\ IF component = "SurveyBuilder"
             THEN /\ localSurveys' = LocalUpdated(localSurveys, surveyProp,
                         Merge(data, [updatedAt |-> IsoString(DateOf(now))]))
                  /\ UNCHANGED fsSurveys
             ELSE /\ surveyProp \in FsIds
                  /\ fsSurveys' = FsUpdated(fsSurveys, surveyProp,
                         Merge(data, [updatedAt |-> ServerTimestamp]))
                  /\ UNCHANGED localSurveys
          /\ peer' = [peer EXCEPT !.saveStatus = "success", !.saved = data]
    /\ UNCHANGED <<route, builderVars, idCounter, docCounter, localResponses,
                   fsResponses, rendererVars, timeVars, analysis, calls>>

\* handleSave of the second instance whose mutationFn throws
PeerSaveFails ==
    /\ peer.open
    /\ ~TitleBlank(peer.title)
    /\ peer' = [peer EXCEPT !.saveStatus = "error"]
    /\ UNCHANGED <<route, builderVars, idCounter, docCounter, storeVars,
                   rendererVars, timeVars, analysis, calls>>

PeerHandleSave == PeerSaveInvalid \/ PeerSaveSucceeds \/ PeerSaveFails

InitEditors ==
    /\ InitBuilder
    /\ surveyProp # NoId
    /\ InitOwnerStores
    /\ InitRenderer
    /\ InitTime
    /\ analysis = NoAnalysis
    /\ calls = [c \in Contexts |-> Idle]
    /\ peer = PeerOn(PropSurvey(component, surveyProp))

NextEditors ==
    \/ \E t \in {<<" ">>, <<"T">>} : SetTitle(t)
    \/ \E d \in DescriptionInputs : SetDescription(d)
    \/ HandleSave
    \/ \E t \in {<<" ">>, <<"P">>} : PeerSetTitle(t)
    \/ PeerUpdateQuestion(100, [text |-> "Q"])
    \/ PeerHandleSave

SpecEditors == InitEditors /\ [][NextEditors]_vars

\* The stored record of the survey both Builders are open on
SharedRecord == CHOOSE s \in StoredSurveys : s.id = surveyProp

\* The title, description and questions of a record or of a save's data
Content(r) ==
    [title |-> r.title, description |-> r.description, questions |-> r.questions]

\* C25: when two Builder instances open on the same Survey id each save, each
\* save reports success and leaves the stored title, description and questions
\* equal to its own draft, so the record holds whatever was saved last; the other
\* instance's draft and status are untouched: nothing reports the overwrite.
C25_LastSaveWins ==
    [][/\ SaveSucceeds =>
             /\ saveStatus' = "success"
             /\ Content(SharedRecord') =
                    SaveData(component, title, description, questions)
             /\ peer' = peer
       /\ PeerSaveSucceeds =>
             /\ peer'.saveStatus = "success"
             /\ Content(SharedRecord') =
                    SaveData(component, peer.title, peer.description, peer.questions)
             /\ UNCHANGED <<title, description, questions, saveStatus>>
    ]_vars

\* C25 witness: the second instance saved its title and its edited question
\* with success, the first instance saved afterwards with success, and the stored
\* record holds the first instance's draft: the second one's edits are gone while
\* both show a successful save
C25_Witness ==
    /\ peer.saveStatus = "success"
    /\ saveStatus = "success"
    /\ peer.saved.title = <<"P">>
    /\ peer.saved.questions[1].text = "Q"
    /\ Content(SharedRecord) = SaveData(component, title, description, questions)
    /\ SharedRecord.title = <<"T">>
    /\ SharedRecord.questions[1].text # "Q"

====
